---- MODULE Spec2Model ----
(***************************************************************************)
(* Model of the rs-ocr crate (src/src/lib.rs): the WASM-exported function  *)
(*                                                                         *)
(*     pub fn ocr(bytes: &[u8]) -> String {                                *)
(*         let out = pdf_extract::extract_text_from_mem(&bytes).unwrap();  *)
(*         String::from(out)                                               *)
(*     }                                                                   *)
(*                                                                         *)
(* The crate owns no state.  The model's state is what a host observes:    *)
(* the log of the calls it made.  pdf_extract is an external crate whose   *)
(* code is not part of this repository; it is modelled as an unknown but   *)
(* fixed function from byte buffers to Result<String, OutputError>, whose  *)
(* value on a buffer is chosen when the buffer is first passed to it and   *)
(* is the same ever after.  Whether a buffer is a document without         *)
(* reachable pages is a fact of the PDF format about that buffer; it is    *)
(* chosen the same way, independently of what the library answers (the     *)
(* empty buffer holds no catalog, so it is never such a document).  The    *)
(* short buffers of the model stand for the buffers a host can pass: the   *)
(* code never looks at a byte, it only hands the buffer on.                *)
(***************************************************************************)
EXTENDS Integers, Sequences, FiniteSets, TLC

\* ---------------------------------------------------------------- bounds
\* longest byte buffer a host passes
MaxLen == 1
\* number of calls of ocr a host makes in one run
MaxCalls == 3

\* byte values used in buffers ('%' and 'P')
ByteVals == {37, 80}

\* the texts the library can extract
Texts == {"", "Hi"}

\* ----------------------------------------------------------- data types
RECURSIVE BuffersOfLen(_)
BuffersOfLen(n) ==
    IF n = 0 THEN {<<>>}
    ELSE {Append(b, x) : b \in BuffersOfLen(n - 1), x \in ByteVals}

\* bytes: &[u8]
Buffers == UNION {BuffersOfLen(n) : n \in 0..MaxLen}

Ok(s) == [tag |-> "Ok", val |-> s]
Err(e) == [tag |-> "Err", err |-> e]

\* Result<String, OutputError>, the type extract_text_from_mem returns
LibResult == {Ok(s) : s \in Texts} \cup {Err("OutputError")}

\* how a call of ocr ends: it returns a String, or the thread panics
Return(s) == [tag |-> "Return", val |-> s]
Panic == [tag |-> "Panic"]

\* ---------------------------------------------------------------- state
VARIABLES
    lib,      \* the library's answer on every buffer it has been given
    noPages,  \* buffers seen -> TRUE iff a PDF with no page reachable from its catalog
    calls     \* the calls of ocr made so far, in order

vars == <<lib, noPages, calls>>

\* -------------------------------------------------------------- the code
\* a slip that passes the buffer without its last byte
forwarded_truncated(bytes) ==
    IF bytes = <<>> THEN bytes ELSE SubSeq(bytes, 1, Len(bytes) - 1)

\* &bytes: the argument handed to extract_text_from_mem
forwarded(bytes) == bytes

\* Result::unwrap_or_default in place of unwrap: an error becomes ""
unwrap_or_default(r) == IF r.tag = "Ok" THEN Return(r.val) ELSE Return("")

\* Result::unwrap
unwrap(r) == IF r.tag = "Ok" THEN Return(r.val) ELSE Panic

\* String::from(out) for out: String
StringFrom(s) == s

\* the body of ocr, given the library's answer on the forwarded buffer
ocr(bytes, answer) ==
    LET out == unwrap(answer)
    IN  IF out.tag = "Panic" THEN Panic ELSE Return(StringFrom(out.val))

\* ocr with a static fallback: when the library fails and an earlier call
\* returned a text, that text is returned again
ocr_call_cached(bytes) ==
    LET arg == forwarded(bytes)
        last == IF calls = <<>> THEN Panic ELSE calls[Len(calls)].result
    IN  /\ Len(calls) < MaxCalls
        /\ \E r \in LibResult :
              /\ arg \in DOMAIN lib => r = lib[arg]
              /\ lib' = IF arg \in DOMAIN lib THEN lib ELSE lib @@ (arg :> r)
              /\ calls' = Append(calls,
                              [bytes   |-> bytes,
                               libArgs |-> <<arg>>,
                               after   |-> bytes,
                               result  |-> IF r.tag = "Err" /\ last.tag = "Return"
                                           THEN last ELSE ocr(bytes, r)])
        /\ \E e \in BOOLEAN :
              /\ bytes \in DOMAIN noPages => e = noPages[bytes]
              /\ bytes = <<>> => ~e
              /\ noPages' = IF bytes \in DOMAIN noPages THEN noPages
                            ELSE noPages @@ (bytes :> e)

\* one call ocr(bytes) by the host
ocr_call(bytes) ==
    LET arg == forwarded(bytes)
    IN  /\ Len(calls) < MaxCalls
        /\ \E r \in LibResult :
              /\ arg \in DOMAIN lib => r = lib[arg]
              /\ lib' = IF arg \in DOMAIN lib THEN lib ELSE lib @@ (arg :> r)
              /\ calls' = Append(calls,
                              [bytes   |-> bytes,
                               libArgs |-> <<arg>>,
                               after   |-> bytes,
                               result  |-> ocr(bytes, r)])
        /\ \E e \in BOOLEAN :
              /\ bytes \in DOMAIN noPages => e = noPages[bytes]
              /\ bytes = <<>> => ~e
              /\ noPages' = IF bytes \in DOMAIN noPages THEN noPages
                            ELSE noPages @@ (bytes :> e)

Init ==
    /\ lib = <<>>
    /\ noPages = <<>>
    /\ calls = <<>>

Next == \E bytes \in Buffers : ocr_call(bytes)

Spec == Init /\ [][Next]_vars

\* --------------------------------------------------------------- claims
\* the library's answer on the buffer the host passed in call i
Answer(i) == lib[calls[i].bytes]

Asked(i) == calls[i].bytes \in DOMAIN lib

\* C1: for every byte buffer, malformed ones included, ocr never panics, and
\* every failure of the parse reaches the caller as a typed error result.
C1_NeverPanics ==
    \A i \in 1..Len(calls) :
        /\ calls[i].result.tag # "Panic"
        /\ (Asked(i) /\ Answer(i).tag = "Err") => calls[i].result.tag = "Err"

\* C2: whenever extract_text_from_mem succeeds with s on the caller's buffer,
\* ocr passed exactly that buffer to it and returns exactly s.
C2_ReturnsExtractedText ==
    \A i \in 1..Len(calls) :
        /\ calls[i].libArgs = <<calls[i].bytes>>
        /\ Asked(i)
        /\ Answer(i).tag = "Ok" => calls[i].result = Return(Answer(i).val)

\* a call on which the library extracted the non-empty text has returned
C2_Witness ==
    \E i \in 1..Len(calls) :
        /\ Asked(i)
        /\ Answer(i) = Ok("Hi")
        /\ calls[i].bytes # <<>>
        /\ calls[i].result = Return("Hi")

\* C3: on a document with no page reachable from its catalog the extraction
\* yields the error EmptyDocument: no panic, no successful string.
C3_EmptyDocumentError ==
    \A i \in 1..Len(calls) :
        noPages[calls[i].bytes] => calls[i].result = Err("EmptyDocument")

\* C9: whenever extract_text_from_mem fails on the caller's buffer, ocr
\* returns no String at all (no empty text, no placeholder): it panics.
C9_ErrorPanics ==
    \A i \in 1..Len(calls) :
        (Asked(i) /\ Answer(i).tag = "Err") => calls[i].result = Panic

\* a call on which the library failed has ended
C9_Witness ==
    \E i \in 1..Len(calls) :
        /\ Asked(i)
        /\ Answer(i).tag = "Err"
        /\ calls[i].result.tag = "Panic"

\* C10: every call invokes the library exactly once and leaves the caller's
\* buffer as it was, and any two calls with equal bytes end the same way,
\* whatever calls were made before or between them.
C10_Stateless ==
    /\ \A i \in 1..Len(calls) :
          /\ Len(calls[i].libArgs) = 1
          /\ calls[i].after = calls[i].bytes
    /\ \A i, j \in 1..Len(calls) :
          calls[i].bytes = calls[j].bytes => calls[i].result = calls[j].result

\* two calls with equal bytes that panicked, with a call in between on
\* other bytes that returned a text
C10_Witness ==
    \E i, k, j \in 1..Len(calls) :
        /\ i < k /\ k < j
        /\ calls[i].bytes = calls[j].bytes
        /\ calls[k].bytes # calls[i].bytes
        /\ calls[i].result = Panic
        /\ calls[k].result = Return("Hi")
        /\ calls[j].result = Panic

====
